---- MODULE Spec2Model ----
(***************************************************************************)
(* A model of Log-Analysis-for-Deployment/advanced_log_analysis.py:        *)
(* read_logs, filter_logs, count_error_patterns and                        *)
(* correlate_policy_deployment_failures (specification Spec), and of the   *)
(* three deployment-summary scripts (specification SpecSummary).           *)
(*                                                                         *)
(* A log record is a Python dict: here a function from the keys it holds   *)
(* to their values.  A value is a string, or None (csv.DictReader's        *)
(* restval for a row shorter than the header).  Only the keys the four     *)
(* functions read are kept.                                                *)
(*                                                                         *)
(* The lists the functions return hold references to the records of the    *)
(* input list; a reference is modelled by the record's 0-based index in    *)
(* logs.                                                                   *)
(***************************************************************************)
EXTENDS Integers, Sequences, FiniteSets

VARIABLES logs, pc, call, result

vars == <<logs, pc, call, result>>

\* Python's None.
None == "None"

(***************************************************************************)
(* Bounds of the explored inputs.                                          *)
(***************************************************************************)
\* Longest file of complete rows (the look-back of 5 needs 7 records to cut
\* a window on the left).
MaxRows == 7
\* Longest file of arbitrary rows (short rows, blank rows, any header).
MaxMixedRows == 2

(***************************************************************************)
(* Module constants of advanced_log_analysis.py.                           *)
(***************************************************************************)
COMPONENTS == {"PolicyService", "NetworkMonitor"}
ERROR_LEVELS == {"ERROR", "WARNING"}
\* The look-back of correlate_policy_deployment_failures: range(max(0, i-5), i).
LookBack == 5

(***************************************************************************)
(* The CSV files read.                                                     *)
(***************************************************************************)
HFull == <<"log_level", "component", "event_type", "status", "message">>
HNoEvent == <<"status", "log_level", "component">>
HNoLevel == <<"event_type", "status", "message">>
HNoStatus == <<"event_type", "log_level">>
Headers == {HFull, HNoEvent, HNoLevel, HNoStatus}

\* The values of one source line, by column name.
LineErr ==
  [log_level |-> "ERROR", component |-> "PolicyService", event_type |-> "AUTH",
   status |-> "FAILED", message |-> "Ab"]
LineFailErr ==
  [log_level |-> "ERROR", component |-> "NetworkMonitor",
   event_type |-> "POLICY_DEPLOYMENT", status |-> "FAILED", message |-> "a"]
LineFail ==
  [log_level |-> "INFO", component |-> "PolicyService",
   event_type |-> "POLICY_DEPLOYMENT", status |-> "FAILED", message |-> "ba"]
LineInfo ==
  [log_level |-> "INFO", component |-> "Other",
   event_type |-> "POLICY_DEPLOYMENT", status |-> "SUCCESS", message |-> ""]
Lines == {LineErr, LineFailErr, LineFail, LineInfo}
CompleteLines == {LineErr, LineFailErr, LineInfo}

\* The cells of a line under a header, cut after n cells (n = 0: a blank line).
Cells(header, line, n) == [k \in 1..n |-> line[header[k]]]

Rows(header) == {Cells(header, line, n) : line \in Lines, n \in 0..Len(header)}
CompleteRows == {Cells(HFull, line, Len(HFull)) : line \in CompleteLines}

SeqsUpTo(S, n) == UNION {[1..k -> S] : k \in 0..n}

Files ==
  {[header |-> HFull, rows |-> rs] : rs \in SeqsUpTo(CompleteRows, MaxRows)}
  \cup UNION {{[header |-> h, rows |-> rs] : rs \in SeqsUpTo(Rows(h), MaxMixedRows)}
              : h \in Headers}

(***************************************************************************)
(* csv.DictReader and read_logs.                                           *)
(***************************************************************************)
\* One row as a dict: the header's names are the keys, a row shorter than
\* the header leaves the remaining keys at restval, None.
DictRow(header, row) ==
  [f \in {header[k] : k \in 1..Len(header)} |->
     LET k == CHOOSE k \in 1..Len(header) : header[k] = f
     IN  IF k <= Len(row) THEN row[k] ELSE None]

RECURSIVE DictReader(_, _)
\* The rows in file order; DictReader skips a row with no cells.
DictReader(header, rows) ==
  IF rows = <<>> THEN <<>>
  ELSE IF Head(rows) = <<>> THEN DictReader(header, Tail(rows))
  ELSE <<DictRow(header, Head(rows))>> \o DictReader(header, Tail(rows))

read_logs(file) == DictReader(file.header, file.rows)

(***************************************************************************)
(* dict.get and list indexing.                                             *)
(***************************************************************************)
\* log.get(key, default); log.get(key) is Get(log, key, None).
Get(log, key, default) == IF key \in DOMAIN log THEN log[key] ELSE default

\* ls[j] for a Python index j >= 0.
At(ls, j) == ls[j + 1]

Max(a, b) == IF a >= b THEN a ELSE b

(***************************************************************************)
(* correlate_policy_deployment_failures.                                   *)
(***************************************************************************)
\* Variant: every deployment that is not a SUCCESS taken for a failure.
IsFailureLax(log) ==
  /\ Get(log, "event_type", None) = "POLICY_DEPLOYMENT"
  /\ Get(log, "status", None) # "SUCCESS"

\* Lines 42-43.
IsFailure(log) ==
  /\ Get(log, "event_type", None) = "POLICY_DEPLOYMENT"
  /\ Get(log, "status", None) = "FAILED"

\* Line 47.
IsError(log) == Get(log, "log_level", None) = "ERROR"

\* Variant: a look-back one record too long.
WindowStartWide(i) == Max(0, i - (LookBack + 1))

\* Line 46: the first index of range(max(0, i-5), i).
WindowStart(i) == Max(0, i - LookBack)

\* Line 46: the (exclusive) end of range(max(0, i-5), i).
WindowStop(i) == i

RECURSIVE ScanWindow(_, _, _)
\* Lines 46-48: the loop over j in range(from, to), appending logs[j] when it
\* is an ERROR record.
ScanWindow(ls, from, to) ==
  IF from >= to THEN <<>>
  ELSE (IF IsError(At(ls, from)) THEN <<from>> ELSE <<>>)
       \o ScanWindow(ls, from + 1, to)

\* Variant: the first record of the window left out.
PrecedingErrorsSkipFirst(ls, i) == ScanWindow(ls, WindowStart(i) + 1, WindowStop(i))

\* Lines 45-48.
PrecedingErrors(ls, i) == ScanWindow(ls, WindowStart(i), WindowStop(i))

RECURSIVE CorrelateFrom(_, _)
\* Lines 41-52: the loop over enumerate(logs), from index i on.
CorrelateFrom(ls, i) ==
  IF i >= Len(ls) THEN <<>>
  ELSE (IF IsFailure(At(ls, i))
        THEN <<[failure_log |-> i, preceding_errors |-> PrecedingErrors(ls, i)]>>
        ELSE <<>>)
       \o CorrelateFrom(ls, i + 1)

RECURSIVE DropSeen(_, _)
\* The indices of a list that are not in seen, in order.
DropSeen(idx, seen) ==
  IF idx = <<>> THEN <<>>
  ELSE (IF Head(idx) \in seen THEN <<>> ELSE <<Head(idx)>>)
       \o DropSeen(Tail(idx), seen)

RECURSIVE CorrelateOnceFrom(_, _, _)
\* Variant: an error already listed for an earlier failure is not listed again.
CorrelateOnceFrom(ls, i, seen) ==
  IF i >= Len(ls) THEN <<>>
  ELSE IF IsFailure(At(ls, i))
       THEN LET errs == DropSeen(PrecedingErrors(ls, i), seen)
            IN  <<[failure_log |-> i, preceding_errors |-> errs]>>
                \o CorrelateOnceFrom(ls, i + 1,
                                     seen \cup {errs[n] : n \in 1..Len(errs)})
       ELSE CorrelateOnceFrom(ls, i + 1, seen)

\* Variant: the return of line 53 inside the loop of line 41.
correlate_return_in_loop(ls) ==
  IF ls = <<>> THEN <<>> ELSE CorrelateFrom(<<ls[1]>>, 0)

\* Variant: preceding errors deduplicated across the failures.
correlate_deduplicated(ls) == CorrelateOnceFrom(ls, 0, {})

correlate_policy_deployment_failures(ls) == CorrelateFrom(ls, 0)

(***************************************************************************)
(* What a call gives back: the value returned, or the exception raised.    *)
(***************************************************************************)
Return(v) == [kind |-> "return", value |-> v]
Raise(e, about) == [kind |-> "raise", exc |-> e, about |-> about]

(***************************************************************************)
(* re.search(pattern, message, re.IGNORECASE) on the strings in use.       *)
(***************************************************************************)
\* The characters of the strings that occur as a message or as a pattern.
Chars(s) ==
  CASE s = "" -> <<>>
    [] s = "a" -> <<"a">>
    [] s = "Ab" -> <<"A", "b">>
    [] s = "ba" -> <<"b", "a">>
    [] s = "ab" -> <<"a", "b">>
    [] s = "b." -> <<"b", ".">>
    [] s = "(" -> <<"(">>

\* Case folding of one character.
Lower(c) == CASE c = "A" -> "a" [] c = "B" -> "b" [] OTHER -> c

RECURSIVE ParensClosed(_, _)
\* re.compile accepts a pattern only when its parentheses are balanced.
ParensClosed(cs, depth) ==
  IF cs = <<>> THEN depth = 0
  ELSE IF Head(cs) = "(" THEN ParensClosed(Tail(cs), depth + 1)
  ELSE IF Head(cs) = ")" THEN depth > 0 /\ ParensClosed(Tail(cs), depth - 1)
  ELSE ParensClosed(Tail(cs), depth)

PatternValid(pattern) == ParensClosed(Chars(pattern), 0)

\* One pattern character against one message character: "." is any
\* character, a letter is itself in either case.
CharMatch(p, c) == p = "." \/ Lower(p) = Lower(c)

\* The pattern matches the message from offset s on.
MatchAt(ps, ms, s) ==
  \A k \in 1..Len(ps) : s + k <= Len(ms) /\ CharMatch(ps[k], ms[s + k])

\* re.search of a valid pattern in a string: a match at some offset.
Search(pattern, message) ==
  \E s \in 0..Len(Chars(message)) : MatchAt(Chars(pattern), Chars(message), s)

(***************************************************************************)
(* count_error_patterns.                                                   *)
(***************************************************************************)
\* counts[pattern] of a defaultdict(int): 0 for a key never incremented.
Lookup(counts, pattern) ==
  IF pattern \in DOMAIN counts THEN counts[pattern] ELSE 0

\* Line 35: counts[pattern] += 1.
Incr(counts, pattern) ==
  [q \in DOMAIN counts \cup {pattern} |->
     IF q = pattern THEN Lookup(counts, pattern) + 1 ELSE counts[q]]

\* Line 30: defaultdict(int), no key yet.
NoCounts == [q \in {} |-> 0]

RECURSIVE CountFrom(_, _, _, _, _)
\* Lines 31-36: the two loops, at record i (0-based) and pattern k (1-based).
\* re.search compiles the pattern first (re.error when it is malformed) and
\* then searches the message (TypeError when it is None).
CountFrom(ls, patterns, i, k, counts) ==
  IF i >= Len(ls) THEN Return(counts)
  ELSE IF k > Len(patterns) THEN CountFrom(ls, patterns, i + 1, 1, counts)
  ELSE LET message == Get(At(ls, i), "message", "")
           pattern == patterns[k]
       IN  IF ~PatternValid(pattern) THEN Raise("re.error", pattern)
           ELSE IF message = None THEN Raise("TypeError", pattern)
           ELSE IF Search(pattern, message)
                THEN CountFrom(ls, patterns, i, k + 1, Incr(counts, pattern))
                ELSE CountFrom(ls, patterns, i, k + 1, counts)

\* Variant: every pattern compiled before the records are scanned.
count_error_patterns_eager(ls, patterns) ==
  IF \E k \in 1..Len(patterns) : ~PatternValid(patterns[k])
  THEN Raise("re.error", patterns[CHOOSE k \in 1..Len(patterns) : ~PatternValid(patterns[k])])
  ELSE CountFrom(ls, patterns, 0, 1, NoCounts)

count_error_patterns(ls, patterns) == CountFrom(ls, patterns, 0, 1, NoCounts)

(***************************************************************************)
(* filter_logs.                                                            *)
(***************************************************************************)
RECURSIVE FilterFrom(_, _, _, _)
\* Lines 24-27: the list comprehension, from index i on.
FilterFrom(ls, levels, components, i) ==
  IF i >= Len(ls) THEN <<>>
  ELSE (IF /\ Get(At(ls, i), "log_level", None) \in levels
           /\ Get(At(ls, i), "component", None) \in components
        THEN <<i>> ELSE <<>>)
       \o FilterFrom(ls, levels, components, i + 1)

filter_logs(ls, levels, components) == FilterFrom(ls, levels, components, 0)

(***************************************************************************)
(* The calls.                                                              *)
(***************************************************************************)
\* The pattern lists passed to count_error_patterns.
PatternLists ==
  {<<>>, <<"a">>, <<"ab", "b.">>, <<"a", "a">>, <<"(">>, <<"a", "(">>}

\* The level and component sets passed to filter_logs.
LevelSets == {ERROR_LEVELS, {"INFO"}}
ComponentSets == {COMPONENTS}

\* What a caller passes after logs to correlate_policy_deployment_failures:
\* nothing, or a window size.
WindowArgs == {<<>>, <<-1>>, <<0>>, <<5>>}

\* Line 38: def correlate_policy_deployment_failures(logs) takes one
\* argument; a call with more raises TypeError before the body runs.
CorrelateCall(ls, extra) ==
  IF extra = <<>> THEN Return(correlate_policy_deployment_failures(ls))
  ELSE Raise("TypeError", extra)

Init ==
  /\ logs = <<>>
  /\ pc = "start"
  /\ call = [op |-> "none"]
  /\ result = [kind |-> "none"]

\* Line 56: logs = read_logs(LOG_FILE).
ReadLogs ==
  /\ pc = "start"
  /\ \E file \in Files : logs' = read_logs(file)
  /\ pc' = "ready"
  /\ UNCHANGED <<call, result>>

\* Variant: the records kept are written back into logs.
FilterLogsInPlace ==
  /\ pc = "ready"
  /\ \E levels \in LevelSets, components \in ComponentSets :
       /\ call' = [op |-> "filter_logs", levels |-> levels, components |-> components]
       /\ result' = Return(filter_logs(logs, levels, components))
       /\ logs' = [k \in 1..Len(filter_logs(logs, levels, components)) |->
                     At(logs, filter_logs(logs, levels, components)[k])]
  /\ UNCHANGED pc

\* filter_logs(logs, levels, components): builds a new list, logs is only read.
FilterLogs ==
  /\ pc = "ready"
  /\ \E levels \in LevelSets, components \in ComponentSets :
       /\ call' = [op |-> "filter_logs", levels |-> levels, components |-> components]
       /\ result' = Return(filter_logs(logs, levels, components))
  /\ UNCHANGED <<logs, pc>>

\* count_error_patterns(logs, patterns): logs is only read.
CountErrorPatterns ==
  /\ pc = "ready"
  /\ \E patterns \in PatternLists :
       /\ call' = [op |-> "count_error_patterns", patterns |-> patterns]
       /\ result' = count_error_patterns(logs, patterns)
  /\ UNCHANGED <<logs, pc>>

\* correlate_policy_deployment_failures(logs, ...): logs is only read.
Correlate ==
  /\ pc = "ready"
  /\ \E extra \in WindowArgs :
       /\ call' = [op |-> "correlate_policy_deployment_failures", extra |-> extra]
       /\ result' = CorrelateCall(logs, extra)
  /\ UNCHANGED <<logs, pc>>

Next == ReadLogs \/ FilterLogs \/ CountErrorPatterns \/ Correlate

Spec == Init /\ [][Next]_vars

(***************************************************************************)
(* The deployment-summary scripts: log_analysis.py,                        *)
(* improved_log_analysis.py and simple_log_analysis.py.  Each reads        *)
(* application_logs.csv itself; logs holds the rows csv.DictReader gives   *)
(* for that file, call the script run and result how the run ended.        *)
(***************************************************************************)
\* Longest file given to a summary script.
MaxSummaryRows == 3

HSummary ==
  <<"timestamp", "event_type", "policy_id", "device_id", "status", "message">>
HNoPolicy == <<"timestamp", "event_type", "device_id", "status", "message">>
HNoEventType == <<"timestamp", "status">>
SummaryHeaders == {HSummary, HNoPolicy, HNoEventType}

SumLine(event_type, policy_id, status, message) ==
  [timestamp |-> "t", event_type |-> event_type, policy_id |-> policy_id,
   device_id |-> "D1", status |-> status, message |-> message]
SummaryLines ==
  {SumLine("POLICY_DEPLOYMENT", "P1", "SUCCESS", "Deployed"),
   SumLine("POLICY_DEPLOYMENT", "P1", "FAILED", "Invalid rule syntax at line 3"),
   SumLine("POLICY_DEPLOYMENT", "P2", "FAILED", "Disk full"),
   SumLine("POLICY_DEPLOYMENT", "P2", "PENDING", "Queued"),
   SumLine("POLICY_DEPLOYMENT", "P2", "ROLLED_BACK", "Reverted"),
   SumLine("AUTH", "P1", "SUCCESS", "Login")}

\* The complete rows of a header, a row that stops after event_type, a row
\* that stops after status, and a blank row.
SummaryRows(header) ==
  {Cells(header, line, Len(header)) : line \in SummaryLines}
  \cup {Cells(header, SumLine("POLICY_DEPLOYMENT", "P1", "FAILED", "Disk full"), n)
        : n \in {0, 2, Len(header) - 1}}

SummaryFiles ==
  UNION {{[header |-> h, rows |-> rs]
          : rs \in SeqsUpTo(SummaryRows(h), MaxSummaryRows)}
         : h \in SummaryHeaders}

\* The keys a script reads from a POLICY_DEPLOYMENT row with row[key].
DeploymentKeys == {"timestamp", "policy_id", "device_id", "status", "message"}

\* deployment_data: the dict built from the row at index i.  One dict is
\* built per row; id stands for the identity of that dict.
DeploymentData(row, i) ==
  [id |-> i, timestamp |-> row["timestamp"], policy_id |-> row["policy_id"],
   device_id |-> row["device_id"], status |-> row["status"],
   message |-> row["message"]]

\* The lists of deployments before the first row; exc is the exception that
\* ended the loop, if any.
NoDeployments ==
  [exc |-> "", all |-> <<>>, SUCCESS |-> <<>>, FAILED |-> <<>>, PENDING |-> <<>>]

\* Variant: every status that is neither SUCCESS nor FAILED taken for PENDING.
ListForElsePending(status, lists) ==
  IF status \in {"SUCCESS", "FAILED"} THEN status ELSE "PENDING"

\* The if / elif chain on row['status']: the list a deployment is appended
\* to besides all_deployments, or "" when no branch is taken.
ListFor(status, lists) == IF status \in lists THEN status ELSE ""

RECURSIVE AnalyzeLoop(_, _, _, _)
\* The loop over the rows, from index i on: row['event_type'] is read on
\* every row, the other keys on a POLICY_DEPLOYMENT row; a key that the row
\* does not hold ends the loop with KeyError.
AnalyzeLoop(rows, i, acc, lists) ==
  IF i >= Len(rows) THEN acc
  ELSE LET row == At(rows, i)
       IN  IF "event_type" \notin DOMAIN row THEN [acc EXCEPT !.exc = "KeyError"]
           ELSE IF row["event_type"] # "POLICY_DEPLOYMENT"
                THEN AnalyzeLoop(rows, i + 1, acc, lists)
           ELSE IF ~(DeploymentKeys \subseteq DOMAIN row)
                THEN [acc EXCEPT !.exc = "KeyError"]
           ELSE LET d == DeploymentData(row, i)
                    list == ListFor(row["status"], lists)
                    withAll == [acc EXCEPT !.all = Append(@, d)]
                IN  AnalyzeLoop(rows, i + 1,
                                IF list = "" THEN withAll
                                ELSE [withAll EXCEPT ![list] = Append(@, d)],
                                lists)

\* A quotient n / d * 100, kept exact; ok is FALSE for ZeroDivisionError.
Percent(n, d) == [ok |-> d # 0, num |-> n * 100, den |-> d]
\* The literal 0 of the guarded rates.
ZeroRate == [ok |-> TRUE, num |-> 0, den |-> 1]

\* What analyze_policy_deployments returns when an exception was caught.
ReturnNone(exc) == [kind |-> "return_none", exc |-> exc]

\* improved_log_analysis.analyze_policy_deployments on the rows of the file.
improved_analyze_policy_deployments(rows) ==
  LET acc == AnalyzeLoop(rows, 0, NoDeployments, {"SUCCESS", "FAILED", "PENDING"})
      completed_deployments == Len(acc.SUCCESS) + Len(acc.FAILED)
  IN  IF acc.exc # "" THEN ReturnNone(acc.exc)
      ELSE Return(
        [total_deployments |-> Len(acc.all),
         completed_deployments |-> completed_deployments,
         successful_deployments |-> Len(acc.SUCCESS),
         failed_deployments |-> Len(acc.FAILED),
         pending_deployments |-> Len(acc.PENDING),
         success_rate |-> IF completed_deployments > 0
                          THEN Percent(Len(acc.SUCCESS), completed_deployments)
                          ELSE ZeroRate,
         all_deployments |-> acc.all,
         successful_details |-> acc.SUCCESS,
         failed_details |-> acc.FAILED,
         pending_details |-> acc.PENDING])

\* log_analysis.analyze_policy_deployments on the rows of the file: the same
\* loop with no PENDING branch.
log_analysis_analyze_policy_deployments(rows) ==
  LET acc == AnalyzeLoop(rows, 0, NoDeployments, {"SUCCESS", "FAILED"})
  IN  IF acc.exc # "" THEN ReturnNone(acc.exc)
      ELSE Return(
        [total_deployments |-> Len(acc.all),
         successful_deployments |-> Len(acc.SUCCESS),
         failed_deployments |-> Len(acc.FAILED),
         success_rate |-> IF acc.all # <<>>
                          THEN Percent(Len(acc.SUCCESS), Len(acc.all))
                          ELSE ZeroRate,
         all_deployments |-> acc.all,
         successful_details |-> acc.SUCCESS,
         failed_details |-> acc.FAILED])

\* How main ended: "completed" (its closing output was printed), "failed"
\* (the Analysis failed branch), "error" (simple_log_analysis's except
\* branch) or "crash" (an exception nothing caught); rates are the
\* percentages computed on the way.
Exit(outcome, exc, results, rates) ==
  [kind |-> "exit", outcome |-> outcome, exc |-> exc, results |-> results,
   rates |-> rates]
NoRates == [q \in {} |-> ZeroRate]

\* log_analysis.main.
log_analysis_main(rows) ==
  LET r == log_analysis_analyze_policy_deployments(rows)
  IN  IF r.kind = "return_none" THEN Exit("failed", r.exc, r, NoRates)
      ELSE Exit("completed", "", r,
                [q \in {"success_rate"} |-> r.value.success_rate])

\* needle in message, for the messages and needles in use.
Contains(message, needle) ==
  <<message, needle>> \in
    {<<"Invalid rule syntax at line 3", "Invalid rule syntax">>}

\* Lines 106-111: the reason counted for a failed deployment.
FailureReason(message) ==
  IF Contains(message, "Invalid rule syntax") THEN "Invalid rule syntax"
  ELSE IF Contains(message, "Connection timed out") THEN "Connection timed out"
  ELSE "Other"

\* The deployments of a list whose field key holds v.
CountOf(ds, key, v) == Cardinality({n \in 1..Len(ds) : ds[n][key] = v})

\* Lines 116-119: the success rate of each policy_id (device_id) deployed.
SuccessRatesBy(ds, key) ==
  [v \in {ds[n][key] : n \in 1..Len(ds)} |->
     Percent(Cardinality({n \in 1..Len(ds) :
                            ds[n][key] = v /\ ds[n].status = "SUCCESS"}),
             CountOf(ds, key, v))]

\* Lines 161-163: the share of each failure reason among the failed.
ReasonRates(results) ==
  LET reasons == [n \in 1..Len(results.failed_details) |->
                    [reason |-> FailureReason(results.failed_details[n].message)]]
  IN  [v \in {reasons[n].reason : n \in 1..Len(reasons)} |->
         IF results.failed_deployments > 0
         THEN Percent(CountOf(reasons, "reason", v), results.failed_deployments)
         ELSE ZeroRate]

\* improved_log_analysis.main: print_analysis_summary calls
\* analyze_deployment_patterns, whose substring tests raise TypeError on a
\* failed deployment whose message is None; nothing catches it.
improved_main(rows) ==
  LET r == improved_analyze_policy_deployments(rows)
  IN  IF r.kind = "return_none" THEN Exit("failed", r.exc, r, NoRates)
      ELSE IF \E n \in 1..Len(r.value.failed_details) :
                r.value.failed_details[n].message = None
      THEN Exit("crash", "TypeError", r,
                [q \in {"success_rate"} |-> r.value.success_rate])
      ELSE Exit("completed", "", r,
                [q \in {"success_rate", "policy", "device", "reason"} |->
                   CASE q = "success_rate" -> r.value.success_rate
                     [] q = "policy" -> SuccessRatesBy(r.value.all_deployments, "policy_id")
                     [] q = "device" -> SuccessRatesBy(r.value.all_deployments, "device_id")
                     [] q = "reason" -> ReasonRates(r.value)])

\* simple_log_analysis.main: the rows are read and the deployments sorted by
\* status in two loops, then the three shares are printed (lines 65-67); the
\* except branch of line 94 takes any exception.
simple_main(rows) ==
  LET read == AnalyzeLoop(rows, 0, NoDeployments, {})
      policy_deployments == read.all
      count(status) == CountOf(policy_deployments, "status", status)
      counts == [total |-> Len(policy_deployments), successful |-> count("SUCCESS"),
                 failed |-> count("FAILED"), pending |-> count("PENDING")]
      rates == [q \in {"successful", "failed", "pending"} |->
                  Percent(counts[q], Len(policy_deployments))]
  IN  IF read.exc # "" THEN Exit("error", read.exc, Return(counts), NoRates)
      ELSE IF \E q \in DOMAIN rates : ~rates[q].ok
      THEN Exit("error", "ZeroDivisionError", Return(counts), NoRates)
      ELSE Exit("completed", "", Return(counts), rates)

InitSummary ==
  /\ \E file \in SummaryFiles : logs = DictReader(file.header, file.rows)
  /\ pc = "ready"
  /\ call = [op |-> "none"]
  /\ result = [kind |-> "none"]

\* python log_analysis.py
RunLogAnalysis ==
  /\ call' = [op |-> "log_analysis.main"]
  /\ result' = log_analysis_main(logs)
  /\ UNCHANGED <<logs, pc>>

\* python improved_log_analysis.py
RunImproved ==
  /\ call' = [op |-> "improved_log_analysis.main"]
  /\ result' = improved_main(logs)
  /\ UNCHANGED <<logs, pc>>

\* python simple_log_analysis.py
RunSimple ==
  /\ call' = [op |-> "simple_log_analysis.main"]
  /\ result' = simple_main(logs)
  /\ UNCHANGED <<logs, pc>>

NextSummary == RunLogAnalysis \/ RunImproved \/ RunSimple

SpecSummary == InitSummary /\ [][NextSummary]_vars

(***************************************************************************)
(* The claims.  The predicates below read the records directly (a key that *)
(* is present and holds the value), not through the functions above.       *)
(***************************************************************************)
Has(log, key, v) == key \in DOMAIN log /\ log[key] = v
Lacks(log, key) == key \notin DOMAIN log \/ log[key] = None

Indices == 0..(Len(logs) - 1)
FailureIndices ==
  {i \in Indices : /\ Has(At(logs, i), "event_type", "POLICY_DEPLOYMENT")
                   /\ Has(At(logs, i), "status", "FAILED")}
ErrorIndices == {j \in Indices : Has(At(logs, j), "log_level", "ERROR")}

RECURSIVE Ascending(_)
\* The numbers of a finite set, smallest first.
Ascending(S) ==
  IF S = {} THEN <<>>
  ELSE LET m == CHOOSE m \in S : \A x \in S : m <= x
       IN  <<m>> \o Ascending(S \ {m})

\* The last call was correlate_policy_deployment_failures(logs).
Correlated ==
  call.op = "correlate_policy_deployment_failures" /\ call.extra = <<>>
\* The last call was count_error_patterns(logs, call.patterns).
Counted == call.op = "count_error_patterns"
Returned == result.kind = "return"

\* C1: every record in a failure's preceding_errors has an index j with
\* max(0, i-5) <= j < i, where i is the failure's index: never the failure
\* itself or a later record, and a failure at an index below 5 has its window
\* cut at index 0 without an exception.
C1_WindowBound ==
  Correlated =>
    /\ Returned
    /\ \A c \in 1..Len(result.value) :
         LET i == result.value[c].failure_log
             errs == result.value[c].preceding_errors
         IN  \A n \in 1..Len(errs) : Max(0, i - 5) <= errs[n] /\ errs[n] < i

\* A failure at index 6 or later listed with preceding errors while the record
\* six places before it is an ERROR record, and a failure at an index below 5.
C1_Witness ==
  /\ Correlated /\ Returned
  /\ \E c \in 1..Len(result.value) :
       /\ result.value[c].failure_log >= 6
       /\ result.value[c].preceding_errors # <<>>
       /\ result.value[c].failure_log - 6 \in ErrorIndices
  /\ \E c \in 1..Len(result.value) :
       /\ result.value[c].failure_log < 5
       /\ result.value[c].preceding_errors # <<>>

\* C2: a failure's preceding_errors is exactly the ERROR records at indices
\* max(0, i-5)..i-1, in ascending index order, none omitted and none twice.
C2_WindowExact ==
  Correlated =>
    /\ Returned
    /\ \A c \in 1..Len(result.value) :
         LET i == result.value[c].failure_log
         IN  result.value[c].preceding_errors =
               Ascending({j \in ErrorIndices : Max(0, i - 5) <= j /\ j < i})

\* Errors at indices 2 and 4 only, a failure at index 5: [record 2, record 4].
C2_Witness ==
  /\ Correlated /\ Returned
  /\ {j \in ErrorIndices : j < 5} = {2, 4}
  /\ \E c \in 1..Len(result.value) :
       /\ result.value[c].failure_log = 5
       /\ result.value[c].preceding_errors = <<2, 4>>

\* C3: one Correlation per record that is a POLICY_DEPLOYMENT with status
\* FAILED and none for any other record, in ascending order of the failure's
\* index; no failure gives the empty list.
C3_OnePerFailure ==
  Correlated =>
    /\ Returned
    /\ [c \in 1..Len(result.value) |-> result.value[c].failure_log]
         = Ascending(FailureIndices)

\* Two failures after a record that is none.
C3_Witness ==
  /\ Correlated /\ Returned
  /\ Len(result.value) = 2
  /\ 0 \notin FailureIndices
  /\ Len(logs) > 2

\* The patterns of the last count_error_patterns call.
PatternsGiven == {call.patterns[k] : k \in 1..Len(call.patterns)}

\* The message of the record at index i matches the pattern, case-insensitively.
MessageMatches(i, pattern) ==
  /\ ~Lacks(At(logs, i), "message")
  /\ Search(pattern, At(logs, i)["message"])

\* C4: for every pattern supplied, the count the call reports is the number
\* of records whose message matches it case-insensitively (0 when none does):
\* a record adds exactly 1 to each pattern it matches, never 2 to one pattern.
C4_CountIsMatches ==
  (Counted /\ Returned /\ \A p \in PatternsGiven : PatternValid(p)) =>
    \A p \in PatternsGiven :
      Lookup(result.value, p) =
        Cardinality({i \in Indices : MessageMatches(i, p)})

\* C5: a pattern list holding a malformed pattern makes the call fail with a
\* ConfigurationError that names the malformed pattern, whatever the records
\* (an empty list included); no PatternCount is returned.
C5_MalformedPatternRejected ==
  (Counted /\ \E p \in PatternsGiven : ~PatternValid(p)) =>
    /\ result.kind = "raise"
    /\ result.exc = "ConfigurationError"
    /\ result.about \in PatternsGiven /\ ~PatternValid(result.about)

\* logs with every missing message (key absent, or None from a short row)
\* replaced by the empty string.
MessagesFilled ==
  [k \in 1..Len(logs) |->
     [f \in DOMAIN logs[k] \cup {"message"} |->
        IF f = "message"
        THEN (IF Lacks(logs[k], "message") THEN "" ELSE logs[k]["message"])
        ELSE logs[k][f]]]

\* C6: a record whose message is missing, the key absent or the row too short
\* to hold the column, counts as one with an empty message: the call does not
\* raise and reports what it reports for the empty message.
C6_MissingMessageIsEmpty ==
  (/\ Counted
   /\ \A p \in PatternsGiven : PatternValid(p)
   /\ \E i \in Indices : Lacks(At(logs, i), "message")) =>
    /\ Returned
    /\ result = count_error_patterns(MessagesFilled, call.patterns)

\* logs with every missing event_type, status and log_level replaced by a
\* value that matches neither predicate.
FieldsFilled ==
  [k \in 1..Len(logs) |->
     [f \in DOMAIN logs[k] \cup {"event_type", "status", "log_level"} |->
        IF f \in {"event_type", "status", "log_level"} /\ Lacks(logs[k], f)
        THEN "OTHER"
        ELSE logs[k][f]]]

\* A record lacking event_type, status or log_level.
Malformed(log) ==
  Lacks(log, "event_type") \/ Lacks(log, "status") \/ Lacks(log, "log_level")

\* C7: the correlator never raises on a record lacking event_type, status or
\* log_level: a record without event_type or status is no failure, a record
\* without log_level is no preceding error, and the result is the one for the
\* same list with ordinary non-matching values in the missing fields.
C7_MalformedRecordsDegrade ==
  (Correlated /\ \E i \in Indices : Malformed(At(logs, i))) =>
    /\ Returned
    /\ \A c \in 1..Len(result.value) :
         LET e == result.value[c]
         IN  /\ ~Lacks(At(logs, e.failure_log), "event_type")
             /\ ~Lacks(At(logs, e.failure_log), "status")
             /\ \A n \in 1..Len(e.preceding_errors) :
                  ~Lacks(At(logs, e.preceding_errors[n]), "log_level")
    /\ result.value = correlate_policy_deployment_failures(FieldsFilled)

\* A failure listed after a POLICY_DEPLOYMENT record without a status.
C7_Witness ==
  /\ Correlated /\ Returned
  /\ result.value # <<>>
  /\ \E j \in Indices :
       /\ Has(At(logs, j), "event_type", "POLICY_DEPLOYMENT")
       /\ Lacks(At(logs, j), "status")
       /\ j < result.value[1].failure_log

\* C8: the correlator takes the window size W from its caller and rejects a
\* negative W with a ConfigurationError, producing no Correlation.
C8_NegativeWindowRejected ==
  (/\ call.op = "correlate_policy_deployment_failures"
   /\ Len(call.extra) = 1 /\ call.extra[1] < 0) =>
    /\ result.kind = "raise"
    /\ result.exc = "ConfigurationError"

\* C9: count_error_patterns, correlate_policy_deployment_failures and
\* filter_logs leave the list they are given as it was: same length, same
\* records at the same indices, same fields and values.
C9_InputUnchanged == [][pc = "ready" => logs' = logs]_vars

\* filter_logs returned some of the records and not others.
C9_Witness ==
  /\ call.op = "filter_logs" /\ Returned
  /\ result.value # <<>>
  /\ Len(result.value) < Len(logs)

\* C10: on an empty list, count_error_patterns returns counts in which no
\* pattern is above 0, whatever the patterns, and
\* correlate_policy_deployment_failures returns the empty list.
C10_EmptyInput ==
  logs = <<>> =>
    /\ Counted =>
         /\ Returned
         /\ \A p \in PatternsGiven \cup DOMAIN result.value :
              Lookup(result.value, p) = 0
    /\ Correlated => result = Return(<<>>)

\* The empty list counted against a list holding a malformed pattern.
C10_Witness ==
  /\ logs = <<>> /\ Counted /\ Returned
  /\ \E p \in PatternsGiven : ~PatternValid(p)

\* The elements of a sequence.
Elems(q) == {q[n] : n \in 1..Len(q)}

\* C11: each failure's window is scanned on its own: an ERROR record inside
\* the windows of two failures is listed for both, and an earlier failure
\* that is itself an ERROR record inside a later failure's window is listed
\* among that failure's preceding errors.
C11_WindowsIndependent ==
  Correlated =>
    /\ Returned
    /\ \A c, d \in 1..Len(result.value) :
         LET i == result.value[c].failure_log
             k == result.value[d].failure_log
         IN  /\ \A j \in ErrorIndices :
                  (/\ Max(0, i - 5) <= j /\ j < i
                   /\ Max(0, k - 5) <= j /\ j < k) =>
                    /\ j \in Elems(result.value[c].preceding_errors)
                    /\ j \in Elems(result.value[d].preceding_errors)
             /\ (i \in ErrorIndices /\ Max(0, k - 5) <= i /\ i < k) =>
                  i \in Elems(result.value[d].preceding_errors)

\* Two failures fewer than 5 records apart that both list one ERROR record,
\* the later one listing the earlier failure too.
C11_Witness ==
  /\ Correlated /\ Returned
  /\ \E c, d \in 1..Len(result.value) :
       LET i == result.value[c].failure_log
           k == result.value[d].failure_log
       IN  /\ i < k /\ k - i < 5
           /\ i \in ErrorIndices
           /\ i \in Elems(result.value[d].preceding_errors)
           /\ \E j \in ErrorIndices :
                /\ j \in Elems(result.value[c].preceding_errors)
                /\ j \in Elems(result.value[d].preceding_errors)

\* The rows of the file that are POLICY_DEPLOYMENT events.
DeploymentRows == {i \in Indices : Has(At(logs, i), "event_type", "POLICY_DEPLOYMENT")}

\* The rows a list of deployments was built from, in list order.
Ids(ds) == [n \in 1..Len(ds) |-> ds[n].id]
NoRepeat(q) == Cardinality(Elems(q)) = Len(q)

\* improved_log_analysis ran and analyze_policy_deployments returned results.
ImprovedAnalyzed ==
  call.op = "improved_log_analysis.main" /\ result.results.kind = "return"

\* C12: in the results of improved_log_analysis.analyze_policy_deployments
\* every POLICY_DEPLOYMENT row is in all_deployments exactly once and in at
\* most one of the successful, failed and pending lists, rows of another
\* event_type are in none; successful + failed + pending <= total, with
\* equality exactly when every deployment's status is SUCCESS, FAILED or
\* PENDING, and completed = successful + failed.
C12_DeploymentPartition ==
  ImprovedAnalyzed =>
    LET r == result.results.value
        s == Ids(r.successful_details)
        f == Ids(r.failed_details)
        p == Ids(r.pending_details)
    IN  /\ Ids(r.all_deployments) = Ascending(DeploymentRows)
        /\ Elems(s) \cup Elems(f) \cup Elems(p) \subseteq DeploymentRows
        /\ NoRepeat(s) /\ NoRepeat(f) /\ NoRepeat(p)
        /\ Elems(s) \cap Elems(f) = {}
        /\ Elems(s) \cap Elems(p) = {}
        /\ Elems(f) \cap Elems(p) = {}
        /\ r.total_deployments = Len(r.all_deployments)
        /\ r.successful_deployments = Len(s)
        /\ r.failed_deployments = Len(f)
        /\ r.pending_deployments = Len(p)
        /\ r.successful_deployments + r.failed_deployments
             + r.pending_deployments <= r.total_deployments
        /\ (r.successful_deployments + r.failed_deployments
              + r.pending_deployments = r.total_deployments)
             <=> \A i \in DeploymentRows :
                   At(logs, i)["status"] \in {"SUCCESS", "FAILED", "PENDING"}
        /\ r.completed_deployments
             = r.successful_deployments + r.failed_deployments

\* A successful deployment, a deployment of another status and a row that is
\* no deployment.
C12_Witness ==
  /\ ImprovedAnalyzed
  /\ result.results.value.successful_deployments = 1
  /\ result.results.value.total_deployments = 2
  /\ result.results.value.pending_deployments = 0
  /\ result.results.value.failed_deployments = 0
  /\ Len(logs) = 3

\* Every row holds a value in every column the scripts read.
RowsComplete ==
  \A i \in Indices :
    \A key \in DeploymentKeys \cup {"event_type"} : ~Lacks(At(logs, i), key)

\* C13: on a file whose rows carry all required columns, each summary script
\* runs to its normal completion output, no percentage is a division by zero,
\* and a rate whose denominator count is 0 is reported as 0.
C13_NoDivisionByZero ==
  (result.kind = "exit" /\ RowsComplete) =>
    /\ result.outcome = "completed"
    /\ call.op \in {"log_analysis.main", "improved_log_analysis.main"} =>
         /\ result.rates["success_rate"].ok
         /\ (call.op = "log_analysis.main"
               /\ result.results.value.total_deployments = 0) =>
              result.rates["success_rate"] = ZeroRate
         /\ (call.op = "improved_log_analysis.main"
               /\ result.results.value.completed_deployments = 0) =>
              result.rates["success_rate"] = ZeroRate
    /\ call.op = "simple_log_analysis.main" =>
         \A q \in DOMAIN result.rates :
           /\ result.rates[q].ok
           /\ result.results.value.total = 0 => result.rates[q] = ZeroRate

====
